---- MODULE Spec2Model ----
(***************************************************************************)
(* Model of the node binding's task-dispatch bridge:                       *)
(*   lib.rs            block_on, instances, get_client, store_client,      *)
(*                     remove_client, panic_to_response_message,           *)
(*                     convert_async_panics                                *)
(*   classes/client/api.rs   Api, ClientTask, perform, complete            *)
(*                                                                         *)
(* Threads: the background threads that run ClientTask::perform (one per   *)
(* task), and the threads that call store_client / remove_client.          *)
(* Locks: the executor Mutex<Runtime>, the RwLock of the instance map and  *)
(* the RwLock of each client.  Arc reference counts are kept per client.   *)
(***************************************************************************)
EXTENDS Integers, Sequences, FiniteSets, TLC

\* ---------------------------------------------------------------- bounds
MaxTasks == 2
MaxOpens == 2
NumIds == 2
NumCallers == 2

Tasks == 1..MaxTasks
Clients == 1..MaxOpens
Callers == (MaxTasks + 1)..(MaxTasks + NumCallers)
Threads == Tasks \cup Callers
\* The host thread is the first caller.
Host == MaxTasks + 1

\* The ids thread_rng may produce (10 alphanumeric characters in the code).
IdPool == <<"aaaaaaaaaa", "bbbbbbbbbb", "cccccccccc", "dddddddddd">>
Ids == {IdPool[i] : i \in 1..NumIds}

\* Api variants of classes/client/api.rs
Api == {"SendTransfer", "GetUnspentAddress", "FindMessages", "GetBalance",
        "GetAddressBalances", "GetInfo", "GetTips", "PostMessage",
        "GetMessagesByIndexation", "GetMessage", "GetMessageMetadata",
        "GetRawMessage", "GetMessageChildren", "GetOutput", "FindOutputs",
        "GetAddressBalance", "GetAddressOutputs", "GetMilestone", "Retry",
        "Reattach", "Promote"}

\* The variants tasks are submitted with in the interleaving model.
ApiSample == {"GetInfo", "GetRawMessage"}

None == 0

VARIABLES
    instances,      \* the HashMap: id -> client (an Arc<RwLock<Client>>)
    mapWriter,      \* thread holding the write guard of the map, or None
    mapReaders,     \* threads holding a read guard of the map
    runtime,        \* OnceCell<Mutex<Runtime>>: number of runtimes created
    runtimeOwner,   \* task holding the MutexGuard of the runtime, or None
    runtimePoisoned,\* the runtime mutex is poisoned
    strong,         \* Arc strong count of each client
    resReaders,     \* per client: tasks holding its read guard
    resWriter,      \* per client: task holding its write guard, or None
    pc,             \* per task: position in schedule / perform / complete
    client_id,      \* ClientTask.client_id
    api,            \* ClientTask.api
    client,         \* per task: the Arc it cloned in get_client, or None
    ext,            \* per task: what the external client call answered
    body,           \* per task: outcome of the async block
    result,         \* per task: value returned by perform
    delivered,      \* per task: the events the host received
    cpc,            \* per caller: position in store_client / remove_client
    carg,           \* per caller: the id passed to remove_client
    opens,          \* number of store_client calls completed
    returned,       \* the ids returned by store_client, in order
    everClosed,     \* ids for which a remove_client has completed
    closedNow,      \* ... and that no later store_client generated again
    closedInFlight, \* tasks whose client was removed while they held it
    afterClose,     \* tasks whose get_client looked up an id closed before
    poisoned,       \* the poisoned RwLocks: 0 for the map, r for client r
    crashed         \* a panic left perform, store_client or remove_client

vars == <<instances, mapWriter, mapReaders, runtime, runtimeOwner,
          runtimePoisoned, strong, resReaders, resWriter, pc, client_id, api,
          client, ext, body, result, delivered, cpc, carg, opens, returned,
          everClosed, closedNow, closedInFlight, afterClose, poisoned,
          crashed>>

regVars == <<instances, mapWriter, mapReaders, strong>>
histVars == <<opens, returned, everClosed, closedNow, closedInFlight,
             afterClose>>
taskVars == <<pc, client_id, api, client, ext, body, result, delivered>>
callerVars == <<cpc, carg>>
execVars == <<runtime, runtimeOwner, runtimePoisoned>>

\* ------------------------------------------------------- values and errors
\* Outcomes: kind is "none", "Ok", "Err" or "panic" (an unwinding panic).
NoOutcome == [kind |-> "none", err |-> "", payload |-> <<>>]
Ok(s) == [kind |-> "Ok", err |-> "", payload |-> s]
Err(e, m) == [kind |-> "Err", err |-> e, payload |-> m]
Unwind(ty, m) == [kind |-> "panic", err |-> ty, payload |-> m]

\* What the external client call can answer.
ExtAnswers == {"ok", "err", "panic_string", "panic_str", "panic_any"}

\* The value, the error and the panic messages of the external library.
ExtValue == <<"value">>
ExtError == <<"client error">>
ExtPanicMsg == <<"library panic">>
ExpectMsg == <<"client dropped or not initialised">>

\* serde_json::to_string(..).unwrap()
to_string(v) == <<"json">> \o v

\* lib.rs panic_to_response_message: the message of a String or &str
\* payload is kept, any other payload gives the bare text; a backtrace
\* follows.
panic_to_response_message(p) ==
    IF p.err \in {"String", "&str"}
    THEN <<"Internal error: ">> \o p.payload \o <<"backtrace">>
    ELSE <<"Internal error">> \o <<"backtrace">>

\* lib.rs convert_async_panics: a result passes through, a panic becomes
\* Error::Panic.
convert_async_panics_escape(o) == o
convert_async_panics(o) ==
    IF o.kind = "panic" THEN Err("Panic", panic_to_response_message(o)) ELSE o

\* api.rs perform, the match on self.api: what is built from the value of
\* the call before it is encoded (a pair with the bech32 address, a vector
\* of the two tips, the Dto of an output or of an address balance).
Convert(a, v) ==
    CASE a = "GetUnspentAddress" -> <<"to_bech32">> \o v
      [] a = "GetAddressBalances" -> <<"AddressBalanceDto">> \o v
      [] a = "GetTips" -> <<"vec">> \o v
      [] a \in {"GetOutput", "FindOutputs"} -> <<"OutputMetadataDto">> \o v
      [] OTHER -> v

\* api.rs perform, the match on self.api: the payload of a successful call.
Payload_always_json(a, v) == to_string(Convert(a, v))
Payload(a, v) ==
    IF a = "GetRawMessage" THEN v ELSE to_string(Convert(a, v))

\* The async block with `?` replaced by a panicking unwrap.
Body_unwrap(a, x) ==
    CASE x = "ok" -> Ok(Payload(a, ExtValue))
      [] x = "err" -> Unwind("String", ExtError)
      [] x = "panic_string" -> Unwind("String", ExtPanicMsg)
      [] x = "panic_str" -> Unwind("&str", ExtPanicMsg)
      [] OTHER -> Unwind("Any", <<>>)

\* api.rs perform, the async block after the read guard is taken: `?`
\* returns the client error, a panic unwinds, a value is encoded.
Body(a, x) ==
    CASE x = "ok" -> Ok(Payload(a, ExtValue))
      [] x = "err" -> Err("ClientError", ExtError)
      [] x = "panic_string" -> Unwind("String", ExtPanicMsg)
      [] x = "panic_str" -> Unwind("&str", ExtPanicMsg)
      [] OTHER -> Unwind("Any", <<>>)

\* api.rs complete: Ok is handed to the callback as a string, Err is thrown
\* as a JS error with the Debug text of the error.
complete_event(r) ==
    IF r.kind = "Ok" THEN [kind |-> "value", text |-> r.payload]
    ELSE [kind |-> "error",
          text |-> <<"ClientTask error: ", r.err>> \o r.payload]

\* ------------------------------------------------------------ lock helpers
\* Arc::clone and drop of an Arc
ArcCloneNone(s, r) == s
ArcClone(s, r) == [s EXCEPT ![r] = @ + 1]
ArcDrop(s, r) == [s EXCEPT ![r] = @ - 1]

\* drop of the map's read guard at the end of get_client
ReadGuardKept(rs, t) == rs
ReadGuardDrop(rs, t) == rs \ {t}

\* Mutex::lock returns when no guard is outstanding.
MutexFreeAlways(o) == TRUE
MutexFree(o) == o = None

\* drop of the runtime's MutexGuard at the end of block_on
MutexGuardKept(o) == o
MutexGuardDrop(o) == None

\* RwLock::write returns when no guard is outstanding, RwLock::read when no
\* write guard is.
CanWriteDespiteReaders(w, rs) == w = None
CanWrite(w, rs) == w = None /\ rs = {}
CanReadDespiteWriter(w) == TRUE
CanRead(w) == w = None

\* A guard dropped while its thread unwinds from a panic poisons its lock
\* if it is a write guard (std::sync::RwLock); read guards never do.
UnwindPoisonAny(mode, l) == {l}
UnwindPoison(mode, l) == IF mode = "write" THEN {l} ELSE {}

\* perform takes the client's lock with client.read(), before the match on
\* the variant.
ClientLockModeWrite(a) == "write"
ClientLockMode(a) == "read"

\* The lock of the map among the RwLocks.
MapLock == 0

\* The panic messages of expect / unwrap on a poisoned lock.
LockMsg == <<"failed to lock client instances: get_client()">>
PoisonMsg == <<"PoisonError">>

\* HashMap::insert and HashMap::remove
MapInsertIfAbsent(m, k, v) ==
    IF k \in DOMAIN m THEN m ELSE [x \in DOMAIN m \cup {k} |-> IF x = k THEN v ELSE m[x]]
MapInsert(m, k, v) == [x \in DOMAIN m \cup {k} |-> IF x = k THEN v ELSE m[x]]
MapRemoveNone(m, k) == m
MapRemoveClear(m, k) == [x \in {} |-> m[x]]
MapRemove(m, k) == [x \in DOMAIN m \ {k} |-> m[x]]

EmptyMap == [x \in {} |-> None]

\* OnceCell::get_or_init: the closure (Runtime::new) runs only while the
\* cell is empty; n is the number of runtimes created so far.
get_or_init_always(n) == n + 1
get_or_init(n) == IF n = 0 THEN 1 ELSE n

\* ------------------------------------------------------------------- Init
Init ==
    /\ instances = EmptyMap
    /\ mapWriter = None
    /\ mapReaders = {}
    /\ runtime = 0
    /\ runtimeOwner = None
    /\ runtimePoisoned = FALSE
    /\ strong = [r \in Clients |-> 0]
    /\ resReaders = [r \in Clients |-> {}]
    /\ resWriter = [r \in Clients |-> None]
    /\ pc = [t \in Tasks |-> "idle"]
    /\ client_id = [t \in Tasks |-> ""]
    /\ api = [t \in Tasks |-> ""]
    /\ client = [t \in Tasks |-> None]
    /\ ext = [t \in Tasks |-> "none"]
    /\ body = [t \in Tasks |-> NoOutcome]
    /\ result = [t \in Tasks |-> NoOutcome]
    /\ delivered = [t \in Tasks |-> <<>>]
    /\ cpc = [c \in Callers |-> "idle"]
    /\ carg = [c \in Callers |-> ""]
    /\ opens = 0
    /\ returned = <<>>
    /\ everClosed = {}
    /\ closedNow = {}
    /\ closedInFlight = {}
    /\ afterClose = {}
    /\ poisoned = {}
    /\ crashed = FALSE

\* --------------------------------------------------- the registry (lib.rs)
\* Calls of store_client begun and not finished.
Storing == {c \in Callers : cpc[c] \in {"store_write", "store_insert"}}

\* store_client is called.
store_call(c) ==
    /\ ~crashed
    /\ cpc[c] = "idle"
    /\ opens + Cardinality(Storing) < MaxOpens
    /\ cpc' = [cpc EXCEPT ![c] = "store_write"]
    /\ UNCHANGED <<regVars, execVars, resReaders, resWriter, taskVars, carg,
                   histVars, poisoned, crashed>>

\* store_client: instances().write().expect(..); the expect of a poisoned
\* lock panics in the caller.
store_write(c) ==
    /\ ~crashed
    /\ cpc[c] = "store_write"
    /\ CanWrite(mapWriter, mapReaders)
    /\ IF MapLock \in poisoned
       THEN /\ crashed' = TRUE
            /\ UNCHANGED <<mapWriter, cpc>>
       ELSE /\ mapWriter' = c
            /\ cpc' = [cpc EXCEPT ![c] = "store_insert"]
            /\ UNCHANGED crashed
    /\ UNCHANGED <<instances, mapReaders, strong, execVars, resReaders,
                   resWriter, taskVars, carg, histVars, poisoned>>

\* store_client: the id is drawn, the client is inserted under it (an entry
\* already under that id is replaced and its Arc dropped), the write guard
\* is dropped and the id returned.
store_insert(c, id) ==
    /\ ~crashed
    /\ cpc[c] = "store_insert"
    /\ mapWriter = c
    /\ LET r == opens + 1
           created == [strong EXCEPT ![r] = 1]
       IN /\ instances' = MapInsert(instances, id, r)
          /\ strong' = IF id \in DOMAIN instances
                       THEN ArcDrop(created, instances[id])
                       ELSE created
    /\ mapWriter' = None
    /\ cpc' = [cpc EXCEPT ![c] = "idle"]
    /\ opens' = opens + 1
    /\ returned' = Append(returned, id)
    /\ closedNow' = closedNow \ {id}
    /\ UNCHANGED <<mapReaders, execVars, resReaders, resWriter, taskVars,
                   carg, everClosed, closedInFlight, afterClose, poisoned, crashed>>

\* remove_client(id) is called.
remove_call(c, id) ==
    /\ ~crashed
    /\ cpc[c] = "idle"
    /\ cpc' = [cpc EXCEPT ![c] = "remove_write"]
    /\ carg' = [carg EXCEPT ![c] = id]
    /\ UNCHANGED <<regVars, execVars, resReaders, resWriter, taskVars,
                   histVars, poisoned, crashed>>

\* remove_client: instances().write().expect(..); the expect of a poisoned
\* lock panics in the caller.
remove_write(c) ==
    /\ ~crashed
    /\ cpc[c] = "remove_write"
    /\ CanWrite(mapWriter, mapReaders)
    /\ IF MapLock \in poisoned
       THEN /\ crashed' = TRUE
            /\ UNCHANGED <<mapWriter, cpc>>
       ELSE /\ mapWriter' = c
            /\ cpc' = [cpc EXCEPT ![c] = "remove_remove"]
            /\ UNCHANGED crashed
    /\ UNCHANGED <<instances, mapReaders, strong, execVars, resReaders,
                   resWriter, taskVars, carg, histVars, poisoned>>

\* remove_client: map.remove(&id) drops the entry's Arc if there is one; the
\* write guard is dropped.
remove_remove(c) ==
    /\ ~crashed
    /\ cpc[c] = "remove_remove"
    /\ mapWriter = c
    /\ instances' = MapRemove(instances, carg[c])
    /\ strong' = IF carg[c] \in DOMAIN instances
                 THEN ArcDrop(strong, instances[carg[c]])
                 ELSE strong
    /\ mapWriter' = None
    /\ cpc' = [cpc EXCEPT ![c] = "idle"]
    /\ carg' = [carg EXCEPT ![c] = ""]
    /\ everClosed' = everClosed \cup {carg[c]}
    /\ closedNow' = closedNow \cup {carg[c]}
    /\ closedInFlight' =
         IF carg[c] \in DOMAIN instances
         THEN closedInFlight \cup {t \in Tasks : client[t] = instances[carg[c]]}
         ELSE closedInFlight
    /\ UNCHANGED <<mapReaders, execVars, resReaders, resWriter, taskVars,
                   opens, returned, afterClose, poisoned, crashed>>

\* ------------------------------------------------ ClientTask (api.rs)
\* The host builds ClientTask { client_id, api } and schedules it (the host
\* thread is not inside store_client or remove_client then).
schedule(t, id, a) ==
    /\ ~crashed
    /\ cpc[Host] = "idle"
    /\ pc[t] = "idle"
    /\ \A u \in Tasks : u < t => pc[u] # "idle"
    /\ pc' = [pc EXCEPT ![t] = "scheduled"]
    /\ client_id' = [client_id EXCEPT ![t] = id]
    /\ api' = [api EXCEPT ![t] = a]
    /\ UNCHANGED <<regVars, execVars, resReaders, resWriter, client, ext,
                   body, result, delivered, callerVars, histVars, poisoned, crashed>>

\* perform -> block_on: INSTANCE.get_or_init creates the runtime once.
block_on_init(t) ==
    /\ ~crashed
    /\ pc[t] = "scheduled"
    /\ runtime' = get_or_init(runtime)
    /\ pc' = [pc EXCEPT ![t] = "lock"]
    /\ UNCHANGED <<regVars, runtimeOwner, runtimePoisoned, resReaders,
                   resWriter, client_id, api, client, ext, body, result,
                   delivered, callerVars, histVars, poisoned, crashed>>

\* block_on: runtime.lock().unwrap(); the unwrap of a poisoned mutex panics
\* outside convert_async_panics.
block_on_lock(t) ==
    /\ ~crashed
    /\ pc[t] = "lock"
    /\ MutexFree(runtimeOwner)
    /\ IF runtimePoisoned
       THEN /\ crashed' = TRUE
            /\ pc' = [pc EXCEPT ![t] = "crashed"]
            /\ UNCHANGED runtimeOwner
       ELSE /\ runtimeOwner' = t
            /\ pc' = [pc EXCEPT ![t] = "get_client"]
            /\ UNCHANGED crashed
    /\ UNCHANGED <<regVars, runtime, runtimePoisoned, resReaders, resWriter,
                   client_id, api, client, ext, body, result, delivered,
                   callerVars, histVars, poisoned>>

\* get_client: instances().read().expect(..); the expect of a poisoned lock
\* panics inside the future.
get_client_read(t) ==
    /\ ~crashed
    /\ pc[t] = "get_client"
    /\ CanRead(mapWriter)
    /\ IF MapLock \in poisoned
       THEN /\ body' = [body EXCEPT ![t] = Unwind("String", LockMsg)]
            /\ pc' = [pc EXCEPT ![t] = "return"]
            /\ UNCHANGED mapReaders
       ELSE /\ mapReaders' = mapReaders \cup {t}
            /\ pc' = [pc EXCEPT ![t] = "lookup"]
            /\ UNCHANGED body
    /\ UNCHANGED <<instances, mapWriter, strong, execVars, resReaders,
                   resWriter, client_id, api, client, ext, result,
                   delivered, callerVars, histVars, poisoned, crashed>>

\* get_client: map.get(&id).expect(..).clone(); the read guard is dropped on
\* return and on unwinding alike.  A missing id panics inside the future.
get_client_lookup(t) ==
    /\ ~crashed
    /\ pc[t] = "lookup"
    /\ t \in mapReaders
    /\ mapReaders' = ReadGuardDrop(mapReaders, t)
    /\ IF client_id[t] \in DOMAIN instances
       THEN /\ client' = [client EXCEPT ![t] = instances[client_id[t]]]
            /\ strong' = ArcClone(strong, instances[client_id[t]])
            /\ pc' = [pc EXCEPT ![t] = "read"]
            /\ UNCHANGED <<body, poisoned>>
       ELSE /\ body' = [body EXCEPT ![t] = Unwind("&str", ExpectMsg)]
            /\ pc' = [pc EXCEPT ![t] = "return"]
            /\ poisoned' = poisoned \cup UnwindPoison("read", MapLock)
            /\ UNCHANGED <<client, strong>>
    /\ afterClose' = IF client_id[t] \in closedNow
                     THEN afterClose \cup {t} ELSE afterClose
    /\ UNCHANGED <<instances, mapWriter, execVars, resReaders, resWriter,
                   client_id, api, ext, result, delivered, callerVars,
                   opens, returned, everClosed, closedNow, closedInFlight,
                   crashed>>

\* perform: client.read().unwrap(), then the external call is started and
\* awaited.  The unwrap of a poisoned lock panics inside the future, and
\* the Arc is dropped by the unwinding.
client_read(t) ==
    /\ ~crashed
    /\ pc[t] = "read"
    /\ resWriter[client[t]] = None
    /\ ClientLockMode(api[t]) = "write" => resReaders[client[t]] = {}
    /\ IF client[t] \in poisoned
       THEN /\ body' = [body EXCEPT ![t] = Unwind("String", PoisonMsg)]
            /\ strong' = ArcDrop(strong, client[t])
            /\ client' = [client EXCEPT ![t] = None]
            /\ pc' = [pc EXCEPT ![t] = "return"]
            /\ UNCHANGED <<resReaders, resWriter, ext>>
       ELSE /\ IF ClientLockMode(api[t]) = "read"
               THEN /\ resReaders' = [resReaders EXCEPT ![client[t]] = @ \cup {t}]
                    /\ UNCHANGED resWriter
               ELSE /\ resWriter' = [resWriter EXCEPT ![client[t]] = t]
                    /\ UNCHANGED resReaders
            /\ ext' = [ext EXCEPT ![t] = "pending"]
            /\ pc' = [pc EXCEPT ![t] = "await"]
            /\ UNCHANGED <<strong, client, body>>
    /\ UNCHANGED <<instances, mapWriter, mapReaders, execVars,
                   client_id, api, result, delivered, callerVars, histVars,
                   poisoned, crashed>>

\* The external call answers x.  A call on a client whose Arc count fell to
\* zero would be a use after free: any outcome.  The async block ends: the
\* read guard and the Arc are dropped, by the return or by the unwinding.
ext_return(t, x) ==
    /\ ~crashed
    /\ pc[t] = "await"
    /\ ext' = [ext EXCEPT ![t] = x]
    /\ \E y \in ExtAnswers :
         /\ strong[client[t]] > 0 => y = x
         /\ body' = [body EXCEPT ![t] = Body(api[t], y)]
         /\ poisoned' = IF Body(api[t], y).kind = "panic"
                        THEN poisoned \cup UnwindPoison(ClientLockMode(api[t]),
                                                        client[t])
                        ELSE poisoned
    /\ resReaders' = [resReaders EXCEPT ![client[t]] = @ \ {t}]
    /\ resWriter' = [resWriter EXCEPT ![client[t]] = IF @ = t THEN None ELSE @]
    /\ strong' = IF strong[client[t]] > 0 THEN ArcDrop(strong, client[t])
                 ELSE strong
    /\ client' = [client EXCEPT ![t] = None]
    /\ pc' = [pc EXCEPT ![t] = "return"]
    /\ UNCHANGED <<instances, mapWriter, mapReaders, execVars,
                   client_id, api, result, delivered, callerVars, histVars,
                   crashed>>

\* The external call never answers.
ext_hang(t) ==
    /\ ~crashed
    /\ pc[t] = "await"
    /\ pc' = [pc EXCEPT ![t] = "hung"]
    /\ UNCHANGED <<regVars, execVars, resReaders, resWriter, client_id, api,
                   client, ext, body, result, delivered, callerVars,
                   histVars, poisoned, crashed>>

\* convert_async_panics yields the result, block_on returns and the
\* MutexGuard is dropped.  A panic that were to pass would poison the mutex
\* and leave perform.
block_on_return(t) ==
    /\ ~crashed
    /\ pc[t] = "return"
    /\ runtimeOwner = t
    /\ LET r == convert_async_panics(body[t])
       IN IF r.kind = "panic"
          THEN /\ runtimePoisoned' = TRUE
               /\ runtimeOwner' = None
               /\ crashed' = TRUE
               /\ pc' = [pc EXCEPT ![t] = "crashed"]
               /\ UNCHANGED result
          ELSE /\ result' = [result EXCEPT ![t] = r]
               /\ runtimeOwner' = MutexGuardDrop(runtimeOwner)
               /\ pc' = [pc EXCEPT ![t] = "performed"]
               /\ UNCHANGED <<runtimePoisoned, poisoned, crashed>>
    /\ UNCHANGED <<regVars, runtime, resReaders, resWriter, client_id, api,
                   client, ext, body, delivered, callerVars, histVars,
                   poisoned>>

\* complete runs once on the host thread with the result of perform (the
\* host thread is not inside store_client or remove_client then).
complete(t) ==
    /\ ~crashed
    /\ cpc[Host] = "idle"
    /\ pc[t] = "performed"
    /\ delivered' = [delivered EXCEPT ![t] = Append(@, complete_event(result[t]))]
    /\ pc' = [pc EXCEPT ![t] = "done"]
    /\ UNCHANGED <<regVars, execVars, resReaders, resWriter, client_id, api,
                   client, ext, body, result, callerVars, histVars, poisoned, crashed>>

\* ------------------------------------------------------------------- Next
TaskNext(t) ==
    \/ block_on_init(t)
    \/ block_on_lock(t)
    \/ get_client_read(t)
    \/ get_client_lookup(t)
    \/ client_read(t)
    \/ \E x \in ExtAnswers : ext_return(t, x)
    \/ block_on_return(t)
    \/ complete(t)

CallerNext(c) ==
    \/ store_write(c)
    \/ \E id \in Ids : store_insert(c, id)
    \/ remove_write(c)
    \/ remove_remove(c)

\* The bridge as the host drives it: the host thread opens and closes
\* clients and schedules tasks, the tasks run on background threads.  No
\* step is taken once a panic has left perform (every action requires
\* ~crashed).
Next ==
    \/ \E t \in Tasks, id \in Ids, a \in ApiSample : schedule(t, id, a)
    \/ \E t \in Tasks : TaskNext(t)
    \/ \E t \in Tasks : ext_hang(t)
    \/ store_call(Host)
    \/ \E id \in Ids : remove_call(Host, id)
    \/ CallerNext(Host)

Spec == Init /\ [][Next]_vars

\* A thread whose next step of perform, complete, store_client or
\* remove_client is enabled again and again eventually takes it (no thread
\* is starved of a lock that keeps being released); whether a call is made,
\* and whether an external call answers, is left open.
FairSpec ==
    /\ Spec
    /\ \A t \in Tasks : SF_vars(TaskNext(t))
    /\ SF_vars(CallerNext(Host))

\* The registry under concurrent callers: every caller thread opens and
\* closes clients while one task resolves handles.
NextReg ==
    \/ \E id \in Ids, a \in ApiSample : schedule(1, id, a)
    \/ TaskNext(1)
    \/ ext_hang(1)
    \/ \E c \in Callers : store_call(c)
    \/ \E c \in Callers, id \in Ids : remove_call(c, id)
    \/ \E c \in Callers : CallerNext(c)

SpecReg == Init /\ [][NextReg]_vars

\* One task of any Api variant, with the host opening and closing clients.
NextApi ==
    \/ \E id \in Ids, a \in Api : schedule(1, id, a)
    \/ TaskNext(1)
    \/ ext_hang(1)
    \/ store_call(Host)
    \/ \E id \in Ids : remove_call(Host, id)
    \/ CallerNext(Host)

SpecApi == Init /\ [][NextApi]_vars

\* ================================================================ claims
\* What the claims expect of a task whose external call answered x.
PanicAnswers == {"panic_string", "panic_str", "panic_any"}
Expected(a, x) ==
    CASE x = "ok" ->
           [kind |-> "Ok", err |-> "",
            payload |-> IF a = "GetRawMessage" THEN <<"value">>
                        ELSE <<"json", "value">>]
      [] x = "err" ->
           [kind |-> "Err", err |-> "ClientError", payload |-> <<"client error">>]
      [] x \in {"panic_string", "panic_str"} ->
           [kind |-> "Err", err |-> "Panic",
            payload |-> <<"Internal error: ", "library panic", "backtrace">>]
      [] OTHER ->
           [kind |-> "Err", err |-> "Panic",
            payload |-> <<"Internal error", "backtrace">>]

InFlight == {t \in Tasks : pc[t] \notin {"idle", "done", "hung", "crashed"}}
Finished == {t \in Tasks : pc[t] \in {"performed", "done"}}

\* C1 (as claimed): every scheduled task whose own external call answers is
\* eventually delivered exactly one outcome, a value or an error, and never
\* a second one.
C1_ExactlyOnce ==
    /\ \A t \in Tasks :
         (pc[t] = "scheduled") ~> (pc[t] = "hung" \/ Len(delivered[t]) = 1)
    /\ [](\A t \in Tasks :
            /\ Len(delivered[t]) <= 1
            /\ Len(delivered[t]) = 1
                 => delivered[t][1].kind \in {"value", "error"})

\* C2 (as claimed): while the external call of one task never answers,
\* every other task in flight can still take its next step, and the host's
\* store_client / remove_client can still take theirs.
C2_HangIsolated ==
    \A u \in Tasks : pc[u] = "hung" =>
        /\ \A t \in InFlight : ENABLED TaskNext(t)
        /\ cpc[Host] # "idle" => ENABLED CallerNext(Host)

UnknownHandleFailure ==
    [kind |-> "Err", err |-> "Panic",
     payload |-> <<"Internal error: ", "client dropped or not initialised",
                   "backtrace">>]

\* The fields of task u.
TaskState(u) ==
    <<pc[u], client_id[u], api[u], client[u], ext[u], body[u], result[u],
      delivered[u]>>

\* C3: a task whose handle is not in the registry when get_client looks it
\* up ends with a failure and never makes the external call; that lookup
\* leaves the registry and every other task as they were, the process does
\* not abort, and every other task that finishes has the outcome its own
\* external call gives it.
C3_UnknownHandleIsolated ==
    /\ [](~crashed)
    /\ [](\A t \in Finished :
            IF ext[t] = "none"
            THEN /\ result[t] = UnknownHandleFailure
                 /\ pc[t] = "done" =>
                      /\ Len(delivered[t]) = 1
                      /\ delivered[t][1].kind = "error"
            ELSE result[t] = Expected(api[t], ext[t]))
    /\ [][\A t \in Tasks :
            (pc[t] = "lookup" /\ pc'[t] # "lookup"
               /\ client_id[t] \notin DOMAIN instances)
            => /\ pc'[t] = "return"
               /\ ext'[t] = "none"
               /\ instances' = instances
               /\ strong' = strong
               /\ \A u \in Tasks \ {t} : TaskState(u)' = TaskState(u)]_vars

\* C3 witness: a task with an unknown handle was delivered its failure and
\* another task was delivered a value.
C3_Witness ==
    \E t, u \in Tasks :
        /\ pc[t] = "done" /\ ext[t] = "none"
        /\ delivered[t][1].kind = "error"
        /\ pc[u] = "done" /\ delivered[u][1].kind = "value"

\* C4: a panic inside a task's body ends that task with Error::Panic and a
\* description; every other task ends with the outcome of its own call; no
\* panic leaves perform (the process does not abort, the executor mutex is
\* not poisoned).
C4_PanicContained ==
    /\ ~crashed
    /\ ~runtimePoisoned
    /\ \A t \in Finished :
         /\ ext[t] \in PanicAnswers =>
              /\ result[t].kind = "Err"
              /\ result[t].err = "Panic"
              /\ Len(result[t].payload) >= 2
              /\ result[t].payload[1] \in {"Internal error: ", "Internal error"}
         /\ ext[t] \in {"ok", "err"} => result[t] = Expected(api[t], ext[t])

\* C4 witness: one task ended with Error::Panic from a panic of its call,
\* and a task against another handle, scheduled before the first was done,
\* ended with a value.
C4_Witness ==
    \E t, u \in Tasks :
        /\ pc[t] = "done" /\ ext[t] \in PanicAnswers
        /\ result[t].err = "Panic"
        /\ client_id[u] # client_id[t]
        /\ pc[u] = "performed" /\ ext[u] = "ok" /\ result[u].kind = "Ok"

\* Arc owners of client r: the registry entry and the tasks holding a clone.
Owners(r) ==
    Cardinality({id \in DOMAIN instances : instances[id] = r})
      + Cardinality({t \in Tasks : client[t] = r})

\* C5: a task that resolved its handle keeps a valid reference (the Arc
\* count covers it) whatever remove_client does, and a task whose client
\* was removed while it held it ends with the outcome of its own external
\* call, as without the removal.
C5_LifetimePastRemoval ==
    /\ \A r \in Clients : strong[r] = Owners(r)
    /\ \A t \in Tasks : client[t] # None => strong[client[t]] >= 1
    /\ \A t \in closedInFlight \cap Finished :
         /\ ext[t] \in ExtAnswers
         /\ result[t] = Expected(api[t], ext[t])

\* C5 witness: the client of a task was removed while the task held it,
\* nothing is left in the registry, and the task was delivered a value.
C5_Witness ==
    \E t \in closedInFlight :
        /\ pc[t] = "done"
        /\ client_id[t] \notin DOMAIN instances
        /\ result[t].kind = "Ok"
        /\ delivered[t][1].kind = "value"

Range(f) == {f[x] : x \in DOMAIN f}

\* C6 (as claimed): once remove_client(h) has completed, h never resolves
\* again, whatever is stored later.
C6_NoResolveAfterClose == \A h \in everClosed : h \notin DOMAIN instances

\* C6 (amended): a handle closed and not generated again by a later
\* store_client is not in the registry, a get_client of it fails, and a
\* handle absent from the registry enters it only by a store_client that
\* returns that very handle (never by remove_client, a task or a lookup).
C6_NoResolveUntilRegenerated ==
    /\ [](closedNow \cap DOMAIN instances = {})
    /\ [](\A t \in afterClose : client[t] = None /\ ext[t] = "none")
    /\ [][\A t \in Tasks :
            (pc[t] = "lookup" /\ pc'[t] # "lookup" /\ client_id[t] \in closedNow)
            => pc'[t] = "return" /\ body'[t].kind = "panic"]_vars
    /\ [][\A h \in Ids :
            (h \notin DOMAIN instances /\ h \in DOMAIN instances')
            => /\ \E c \in Callers : cpc[c] = "store_insert" /\ cpc'[c] = "idle"
               /\ returned' = Append(returned, h)]_vars

\* C6 witness: a handle was stored, then closed, and a get_client of it made
\* afterwards has failed.
C6_Witness ==
    \E t \in afterClose :
        /\ client_id[t] \in Range(returned)
        /\ client_id[t] \in closedNow
        /\ pc[t] = "done"
        /\ result[t] = UnknownHandleFailure

\* C7 (as claimed): the handles store_client returned are pairwise distinct
\* and, with no close, the registry holds one entry per open.
C7_HandlesUnique ==
    /\ \A i, j \in 1..Len(returned) : i # j => returned[i] # returned[j]
    /\ everClosed = {} => Cardinality(DOMAIN instances) = opens

\* C7 (amended): store_client leaves the new client under the handle it
\* returns and every other entry as it was; the registry grows by one entry
\* exactly when the generated handle was not a key, otherwise the entry under
\* it is replaced; with no close the registry holds one entry per distinct
\* handle returned.
C7_StoreInsertsOrReplaces ==
    /\ [](opens = Len(returned))
    /\ [](everClosed = {} => DOMAIN instances = Range(returned))
    /\ [][\A c \in Callers :
            (cpc[c] = "store_insert" /\ cpc'[c] = "idle")
            => LET h == returned'[Len(returned')]
               IN /\ Len(returned') = Len(returned) + 1
                  /\ h \in DOMAIN instances'
                  /\ instances'[h] = opens'
                  /\ strong'[opens'] = 1
                  /\ DOMAIN instances' = DOMAIN instances \cup {h}
                  /\ \A k \in DOMAIN instances \ {h} : instances'[k] = instances[k]
                  /\ Cardinality(DOMAIN instances') =
                       Cardinality(DOMAIN instances)
                         + (IF h \in DOMAIN instances THEN 0 ELSE 1)]_vars

\* C7 witness: two opens and no close, the second generated the handle of
\* the first: one entry, holding the second client.
C7_Witness ==
    /\ opens = 2
    /\ everClosed = {}
    /\ returned[1] = returned[2]
    /\ Cardinality(DOMAIN instances) = 1
    /\ instances[returned[2]] = 2

\* The positions of perform inside the body of the future.
InBody == {"get_client", "lookup", "read", "await", "hung", "return"}

\* C8 (as claimed): a task on a live handle never needs another task on that
\* handle to finish before it can start: while another task on the handle
\* holds the client's read guard and awaits its external call, a task
\* waiting for the executor can enter it.
C8_ReadsDoNotBlock ==
    \A t, u \in Tasks :
        (/\ t # u
         /\ client_id[t] = client_id[u]
         /\ client_id[u] \in DOMAIN instances
         /\ pc[u] = "await" /\ u \in resReaders[client[u]]
         /\ pc[t] = "lock")
        => ENABLED block_on_lock(t)

\* C9: a task holds the map's read guard only inside get_client's lookup,
\* never while it waits for the executor, waits for or holds the client's
\* lock, or awaits the external call; so whenever no task is inside that
\* lookup, store_client and remove_client of the host get the write guard
\* and finish without waiting for any task.
C9_HostNeverBlocks ==
    /\ \A t \in Tasks : t \in mapReaders => pc[t] = "lookup"
    /\ mapWriter \notin Tasks
    /\ (cpc[Host] # "idle" /\ \A t \in Tasks : pc[t] # "lookup")
         => ENABLED CallerNext(Host)

\* C9 witness: the host asks for the write guard while one task awaits its
\* external call (or hangs in it) and another waits for the executor.
C9_Witness ==
    /\ cpc[Host] \in {"store_write", "remove_write"}
    /\ \E t, u \in Tasks : pc[t] \in {"await", "hung"} /\ pc[u] = "lock"

\* The threads a thread waits for: the holders of the lock it is asking for.
WaitsFor(x) ==
    IF x \in Tasks
    THEN CASE pc[x] = "lock" -> {runtimeOwner} \ {None}
           [] pc[x] = "get_client" -> {mapWriter} \ {None}
           [] pc[x] = "read" -> {resWriter[client[x]]} \ {None}
           [] OTHER -> {}
    ELSE IF cpc[x] \in {"store_write", "remove_write"}
         THEN ({mapWriter} \ {None}) \cup mapReaders
         ELSE {}

\* The threads reached from S along WaitsFor in at most n steps.
RECURSIVE Reach(_, _)
Reach(S, n) ==
    IF n = 0 THEN S
    ELSE Reach(S \cup UNION {WaitsFor(y) : y \in S}, n - 1)

\* C10: no thread waits, directly or through other waiting threads, for a
\* lock it holds itself; and as long as no external call hangs and a task
\* is in flight, some thread inside perform, complete, store_client or
\* remove_client can take a step.
C10_DeadlockFree ==
    /\ \A x \in Threads : x \notin Reach(WaitsFor(x), Cardinality(Threads))
    /\ ((\A t \in Tasks : pc[t] # "hung") /\ InFlight # {})
         => \/ ENABLED (\E t \in Tasks : TaskNext(t))
            \/ ENABLED CallerNext(Host)

\* C10 witness: a chain of waits: a task waits for the executor held by a
\* task that waits for the map held by the host.
C10_Witness ==
    \E t, u \in Tasks :
        /\ pc[t] = "lock" /\ runtimeOwner = u
        /\ pc[u] = "get_client" /\ mapWriter = Host

\* C11 (as claimed): while store_client or remove_client is inside its
\* critical section for one handle, a get_client of a different handle that
\* is in the registry can take the read guard without waiting.
C11_MutationDoesNotBlockOthers ==
    \A t \in Tasks, c \in Callers :
        (/\ pc[t] = "get_client"
         /\ client_id[t] \in DOMAIN instances
         /\ mapWriter = c
         /\ cpc[c] = "remove_remove"
         /\ carg[c] # client_id[t])
        => ENABLED get_client_read(t)

\* C12: the runtime is created exactly once, by the first block_on and not
\* before; once created it is never created again, so every task that has
\* entered block_on uses that one instance, also when several tasks call
\* block_on before any of them has taken the mutex.
C12_ExecutorSingleton ==
    /\ [](runtime \in {0, 1})
    /\ [](runtime = 0 <=> \A t \in Tasks : pc[t] \in {"idle", "scheduled"})
    /\ [][runtime = 1 => runtime' = 1]_vars
    /\ [][runtime' # runtime
            => \E t \in Tasks : pc[t] = "scheduled" /\ pc'[t] = "lock"]_vars

\* C12 witness: two tasks have called block_on before either took the
\* mutex, and one runtime exists.
C12_Witness ==
    /\ runtime = 1
    /\ runtimeOwner = None
    /\ \E t, u \in Tasks : t # u /\ pc[t] = "lock" /\ pc[u] = "lock"

\* C13: when the external call of a task fails with an error, perform
\* returns Error::ClientError carrying that error as it is (not a Panic, not
\* a value, nothing encoded), the host receives it as an error, and the step
\* that ends the call changes neither the registry nor any client's lock
\* state beyond releasing the task's own read guard and Arc.
C13_DomainErrorPassThrough ==
    /\ [](\A t \in Finished : ext[t] = "err" =>
            /\ result[t] = [kind |-> "Err", err |-> "ClientError",
                            payload |-> <<"client error">>]
            /\ pc[t] = "done" =>
                 delivered[t] = <<[kind |-> "error",
                                   text |-> <<"ClientTask error: ", "ClientError",
                                              "client error">>]>>)
    /\ [][\A t \in Tasks :
            (pc[t] = "await" /\ pc'[t] = "return" /\ ext'[t] = "err")
            => /\ body'[t].kind = "Err"
               /\ instances' = instances
               /\ resWriter' = resWriter
               /\ \A r \in Clients :
                    resReaders'[r] = resReaders[r] \ {t}
               /\ \A r \in Clients :
                    strong'[r] = strong[r] - (IF r = client[t] THEN 1 ELSE 0)]_vars

\* C13 witness: a task whose external call failed was delivered the error
\* while its handle is still registered.
C13_Witness ==
    \E t \in Tasks :
        /\ pc[t] = "done" /\ ext[t] = "err"
        /\ result[t].err = "ClientError"
        /\ client_id[t] \in DOMAIN instances

\* The callers inside the critical section of store_client / remove_client,
\* and the tasks inside that of get_client.
Writing == {c \in Callers : cpc[c] \in {"store_insert", "remove_remove"}}
Reading == {t \in Tasks : pc[t] = "lookup"}

ExpectedShape(a) ==
    CASE a = "GetUnspentAddress" -> <<"to_bech32", "value">>
      [] a = "GetAddressBalances" -> <<"AddressBalanceDto", "value">>
      [] a = "GetTips" -> <<"vec", "value">>
      [] a \in {"GetOutput", "FindOutputs"} -> <<"OutputMetadataDto", "value">>
      [] OTHER -> <<"value">>

\* C15: a successful GetRawMessage task returns and delivers exactly the
\* value of the external call; a successful task of any other variant
\* returns and delivers the JSON encoding of what the call gave.
C15_RawBypass ==
    \A t \in Finished : ext[t] = "ok" =>
        /\ api[t] \in Api
        /\ result[t].kind = "Ok"
        /\ result[t].payload =
             IF api[t] = "GetRawMessage" THEN <<"value">>
             ELSE <<"json">> \o ExpectedShape(api[t])
        /\ pc[t] = "done" =>
             delivered[t] = <<[kind |-> "value", text |-> result[t].payload]>>

\* C15 witness: a successful GetRawMessage task was delivered the bare
\* value.
C15_Witness ==
    \E t \in Tasks :
        /\ pc[t] = "done" /\ api[t] = "GetRawMessage" /\ ext[t] = "ok"
        /\ delivered[t][1].text = <<"value">>

\* C16: the tasks between taking the runtime's mutex and block_on returning
\* are at most one, the holder of the mutex; a task waiting at
\* runtime.lock() cannot enter while another is there.
C16_BodiesSerialized ==
    /\ Cardinality({t \in Tasks : pc[t] \in InBody}) <= 1
    /\ {t \in Tasks : pc[t] \in InBody} = {runtimeOwner} \ {None}
    /\ \A t \in Tasks :
         (pc[t] = "lock" /\ \E u \in Tasks : pc[u] \in InBody)
         => ~ENABLED block_on_lock(t)

\* C16 witness: one task awaits its external call inside block_on and
\* another waits at runtime.lock().
C16_Witness ==
    \E t, u \in Tasks : pc[t] = "await" /\ runtimeOwner = t /\ pc[u] = "lock"

\* The ways perform ends: by success, by a domain error, by a caught panic
\* of the external call, by an unknown handle.
ExitPath(t) ==
    IF ext[t] = "none" THEN "unknown handle"
    ELSE IF ext[t] \in PanicAnswers THEN "caught panic"
    ELSE IF ext[t] = "err" THEN "domain error"
    ELSE "success"

\* C17: once a task's perform has returned, by whichever exit path, the
\* task holds neither the runtime's mutex, nor the map's lock, nor a
\* client's lock, nor a client's Arc, and no lock is poisoned; a task that
\* waits at runtime.lock() while no task is inside block_on can take the
\* mutex, a task at instances().read() while no caller writes can take the
\* map's lock, a task at client.read() can take the client's lock, and every
\* task that returned has the outcome of its own handle and call.
C17_LocksReleasedOnExit ==
    /\ ~runtimePoisoned
    /\ poisoned = {}
    /\ ~crashed
    /\ \A t \in Finished :
         /\ runtimeOwner # t
         /\ mapWriter # t
         /\ t \notin mapReaders
         /\ \A r \in Clients : t \notin resReaders[r] /\ resWriter[r] # t
         /\ client[t] = None
         /\ result[t] = IF ExitPath(t) = "unknown handle"
                        THEN UnknownHandleFailure
                        ELSE Expected(api[t], ext[t])
    /\ \A u \in Tasks :
         /\ (pc[u] = "lock" /\ \A t \in Tasks \ {u} : pc[t] \in {"idle", "scheduled", "lock", "performed", "done"})
            => ENABLED block_on_lock(u)
         /\ (pc[u] = "get_client" /\ mapWriter = None) => ENABLED get_client_read(u)
         /\ pc[u] = "read" => ENABLED client_read(u)
         /\ pc[u] = "await" => u \in resReaders[client[u]]

\* C17 witness: a task whose external call panicked has been delivered its
\* error, and a task that took the runtime's mutex after it has taken the
\* map's lock and the lock of the same client, and its call has answered.
C17_Witness ==
    \E t, u \in Tasks :
        /\ pc[t] = "done" /\ ExitPath(t) = "caught panic"
        /\ delivered[t] # <<>>
        /\ pc[u] = "return" /\ runtimeOwner = u
        /\ client_id[t] = client_id[u]
        /\ body[u].kind = "Ok"

\* C18: no client's lock ever has a writer; a task holds the read guard of
\* the client it looked up exactly while its external call is awaited, and
\* holds no other client's guard; a task at client.read() can always take
\* the guard.
C18_SharedAccessOnly ==
    /\ \A r \in Clients : resWriter[r] = None
    /\ \A t \in Tasks :
         /\ pc[t] \in {"await", "hung"} =>
              client[t] \in Clients /\ t \in resReaders[client[t]]
         /\ \A r \in Clients : t \in resReaders[r] =>
              pc[t] \in {"await", "hung"} /\ client[t] = r
         /\ pc[t] = "read" => client[t] \in Clients /\ ENABLED client_read(t)

\* C18 witness: a task holds the read guard of a client while its call of
\* a variant is awaited, and the client is no longer in the map.
C18_Witness ==
    \E t \in Tasks, r \in Clients :
        /\ pc[t] = "await" /\ api[t] = "GetInfo"
        /\ resReaders[r] = {t}
        /\ r \notin Range(instances)

\* C19: remove_client(h) never panics and, holding the write guard, it can
\* always finish; its map.remove step leaves exactly the entries of the
\* other handles, each with the client it had, changes nothing when h has
\* no entry, and removing h again from the map it leaves changes nothing.
C19_RemoveTotalIdempotentFramed ==
    /\ [](~crashed /\ \A c \in Callers :
            cpc[c] = "remove_remove" => mapWriter = c /\ ENABLED remove_remove(c))
    /\ [][\A c \in Callers : remove_write(c) => cpc'[c] = "remove_remove"]_vars
    /\ [][\A c \in Callers : remove_remove(c) =>
            /\ DOMAIN instances' = DOMAIN instances \ {carg[c]}
            /\ \A h \in DOMAIN instances' : instances'[h] = instances[h]
            /\ carg[c] \notin DOMAIN instances => instances' = instances
            /\ MapRemove(instances', carg[c]) = instances'
            /\ cpc'[c] = "idle"
            /\ mapWriter' = None]_vars

\* C19 witness: remove_client has returned for a handle that store_client
\* never returned, while the entry of another handle is in the map.
C19_Witness ==
    \E h \in everClosed :
        /\ h \notin Range(returned)
        /\ instances # EmptyMap
        /\ \A c \in Callers : cpc[c] = "idle"

====
